---- MODULE Spec2Model ----
(***************************************************************************)
(* MQTT door lock (MQTT_Door_Controller.ino): the boot sequence (setup),   *)
(* the persistent credential store (EEPROM), the challenge generator       *)
(* (generateRandomString, djb2Modified) and the command authorizer         *)
(* (mqttCallback, executeCommand).                                         *)
(*                                                                         *)
(* Text is modelled as sequences of character codes (Arduino String) or as *)
(* functions 0..MAX_STRING_LENGTH-1 -> byte (char arrays).  Serial logging *)
(* is not modelled.                                                        *)
(***************************************************************************)
EXTENDS Integers, Sequences, FiniteSets, TLC

(* ------------------------------ bounds -------------------------------- *)

\* Number of sample nonces generateRandomString may return (out of 26^8).
MaxNonces == 3

\* Number of distinct users (digits 1..MaxUsers) that send well-formed requests.
MaxUsers == 2

\* Number of letters the digest specification draws nonce characters from.
MaxLetters == 2

(* --------------------------- program constants ------------------------ *)

EEPROM_SIZE == 256

MAX_STRING_LENGTH == 64

FLAG_ADDRESS == EEPROM_SIZE - 1

INIT_FLAG == 45

SEED == 5381

PRIME == 7919

MQTT_SERVER_START == 0

MQTT_USER_START == MQTT_SERVER_START + MAX_STRING_LENGTH

MQTT_PASSWORD_START == MQTT_USER_START + MAX_STRING_LENGTH

\* Length of the nonce built by generateRandomString.
NONCE_LENGTH == 8

\* random(0, 26): the number of capital letters.
ALPHABET == 26

\* The multiplier of the DJB2 step.
MULTIPLIER == 33

\* uint64_t is kept as four 16-bit limbs, least significant first.
LIMB == 2 ^ 16

\* Character codes.
NUL == 0

Ch0 == 48

ChA == 65

Ch9 == Ch0 + 9

\* The character userNumber + '0' is while userNumber is -1 ("/").
ChSlash == Ch0 - 1

\* A character that is neither a digit nor a capital letter ("x").
Chx == ChA + 55

\* "lock" and "unlock" and some near misses, as character codes.
StrLock == <<108, 111, 99, 107>>

StrUnlock == <<117, 110>> \o StrLock

StrLockUpper == <<76, 111, 99, 107>>

StrLocks == StrLock \o <<115>>

\* Topics.
topicCommands == "commands"

topicValidationRequests == "validation/requests"

topicValidationResponses == "validation/responses"

topicOther == "other"

(* ------------------------- Arduino String helpers --------------------- *)

\* String::charAt / operator[]: 0 when the index is out of range.
charAt(s, i) == IF i < Len(s) THEN s[i + 1] ELSE NUL

\* String::substring(left): the empty String when left is at or past the end.
substring(s, left) == IF left >= Len(s) THEN <<>> ELSE SubSeq(s, left + 1, Len(s))

\* isDigit(c).
isDigit(c) == c >= Ch0 /\ c <= Ch9

\* String(n) for an unsigned value: decimal digits, no leading zero.
RECURSIVE StringOf(_)
StringOf(n) == IF n < 10 THEN <<Ch0 + n>> ELSE StringOf(n \div 10) \o <<Ch0 + (n % 10)>>

(* --------------------------- ChallengeGenerator ----------------------- *)

\* Variant of Mul33Add: the hash kept in 32 bits.
Mul33Add32(h, c) ==
    LET t1 == h[1] * MULTIPLIER + c
        t2 == h[2] * MULTIPLIER + (t1 \div LIMB)
    IN  <<t1 % LIMB, t2 % LIMB, 0, 0>>

\* hash * 33 + c on a uint64_t (four limbs), wrapping at 2^64.
Mul33Add(h, c) ==
    LET t1 == h[1] * MULTIPLIER + c
        t2 == h[2] * MULTIPLIER + (t1 \div LIMB)
        t3 == h[3] * MULTIPLIER + (t2 \div LIMB)
        t4 == h[4] * MULTIPLIER + (t3 \div LIMB)
    IN  <<t1 % LIMB, t2 % LIMB, t3 % LIMB, t4 % LIMB>>

\* What hash * 33 + c loses above 2^64: the carry out of the top limb.
Mul33Carry(h, c) ==
    LET t1 == h[1] * MULTIPLIER + c
        t2 == h[2] * MULTIPLIER + (t1 \div LIMB)
        t3 == h[3] * MULTIPLIER + (t2 \div LIMB)
        t4 == h[4] * MULTIPLIER + (t3 \div LIMB)
    IN  t4 \div LIMB

\* hash %= PRIME on the four limbs.
ModPrime(h) ==
    LET r4 == h[4] % PRIME
        r3 == (r4 * LIMB + h[3]) % PRIME
        r2 == (r3 * LIMB + h[2]) % PRIME
    IN  (r2 * LIMB + h[1]) % PRIME

\* The loop of djb2Modified over the first k characters of input.
RECURSIVE HashLoop(_, _)
HashLoop(input, k) ==
    IF k = 0 THEN <<SEED, 0, 0, 0>>
    ELSE Mul33Add(HashLoop(input, k - 1), input[k])

\* djb2Modified(input): the decimal String of the reduced hash.
djb2Modified(input) == StringOf(ModPrime(HashLoop(input, Len(input))))

\* The 8-letter string whose letters are the base-26 digits of v (the value
\* generateRandomString builds when random() returns those digits in order).
RECURSIVE LettersOf(_, _)
LettersOf(v, k) ==
    IF k = 0 THEN <<>> ELSE LettersOf(v \div ALPHABET, k - 1) \o <<ChA + (v % ALPHABET)>>

\* The i-th sample nonce.  Samples 0 and 1 ("AAAAAAAB" and "AAAAAHJA") differ by
\* 7*33^2 + 9*33 - 1 = PRIME in the hash, so they share a digest.
SampleNonce(i) == LettersOf(1 + i * (7 * 676 + 9 * 26 - 1), NONCE_LENGTH)

\* Variant of generateRandomString: the loop stops one letter early.
generateRandomStringShort ==
    {SubSeq(SampleNonce(i), 1, NONCE_LENGTH - 1) : i \in 0 .. MaxNonces - 1}

\* generateRandomString(): the values the model lets it return.
generateRandomString == {SampleNonce(i) : i \in 0 .. MaxNonces - 1}

(* ------------------------------ ConfigStore --------------------------- *)

\* The EEPROM and the char arrays are sequences: the byte at address (or index)
\* a is element a + 1.  Slot is the range of indexes of one char array.
Slot == 0 .. MAX_STRING_LENGTH - 1

\* A zero-filled char[MAX_STRING_LENGTH] (a global before setup runs).
ZeroBuffer == [i \in 1 .. MAX_STRING_LENGTH |-> NUL]

\* Index of the first terminator of a char array, MAX_STRING_LENGTH if none.
FirstNul(b) ==
    IF \A i \in Slot : b[i + 1] # NUL THEN MAX_STRING_LENGTH
    ELSE CHOOSE i \in Slot : b[i + 1] = NUL /\ \A j \in 0 .. i - 1 : b[j + 1] # NUL

\* Last index touched by a loop that copies up to and including the terminator.
LastCopied(b) == IF FirstNul(b) < MAX_STRING_LENGTH THEN FirstNul(b) ELSE MAX_STRING_LENGTH - 1

\* initEEPROM() without the test of the marker at line 61.
initEEPROMAlways(ee) ==
    [a \in 1 .. EEPROM_SIZE |-> IF a = FLAG_ADDRESS + 1 THEN INIT_FLAG ELSE NUL]

\* initEEPROM() without the write of the marker at line 66.
initEEPROMNoMarker(ee) ==
    IF ee[FLAG_ADDRESS + 1] # INIT_FLAG THEN [a \in 1 .. EEPROM_SIZE |-> NUL] ELSE ee

\* initEEPROM(): zero-fill and write the marker unless the marker is present.
initEEPROM(ee) ==
    IF ee[FLAG_ADDRESS + 1] # INIT_FLAG
    THEN [a \in 1 .. EEPROM_SIZE |-> IF a = FLAG_ADDRESS + 1 THEN INIT_FLAG ELSE NUL]
    ELSE ee

\* getSavedString(start, buffer): the buffer after the call.
getSavedString(ee, start, buffer) ==
    LET stored == [i \in 1 .. MAX_STRING_LENGTH |-> ee[start + i]]
        last == LastCopied(stored)
    IN  [i \in 1 .. MAX_STRING_LENGTH |-> IF i - 1 <= last THEN stored[i] ELSE buffer[i]]

\* setSavedString with the test of line 87 ahead of the write of line 86: the
\* terminator is never written.
setSavedStringNoTerminator(ee, start, value) ==
    LET first == FirstNul(value)
    IN  [a \in 1 .. EEPROM_SIZE |->
            IF a - 1 >= start /\ a - 1 < start + first THEN value[a - start] ELSE ee[a]]

\* setSavedString that always ends the copy with a terminator, also after
\* MAX_STRING_LENGTH bytes without one: that terminator lands behind the slot.
setSavedStringTerminated(ee, start, value) ==
    LET first == FirstNul(value)
    IN  [a \in 1 .. EEPROM_SIZE |->
            IF a - 1 >= start /\ a - 1 < start + first THEN value[a - start]
            ELSE IF a - 1 = start + first THEN NUL ELSE ee[a]]

\* setSavedString(start, value): the EEPROM after the call.
setSavedString(ee, start, value) ==
    LET last == LastCopied(value)
    IN  [a \in 1 .. EEPROM_SIZE |->
            IF a - 1 >= start /\ a - 1 <= start + last THEN value[a - start] ELSE ee[a]]

\* The EEPROM.write calls of initEEPROM(): the zero-fill and the marker, or none.
initEEPROMWrites(ee) == IF ee[FLAG_ADDRESS + 1] # INIT_FLAG THEN EEPROM_SIZE + 1 ELSE 0

\* The EEPROM.write calls of setSavedString(start, value): one per byte copied.
setSavedStringWrites(value) == LastCopied(value) + 1

\* strncpy(dest, src, MAX_STRING_LENGTH): the destination after the call.
strncpy(src) == [i \in 1 .. MAX_STRING_LENGTH |-> IF i <= Len(src) THEN src[i] ELSE NUL]

\* strlen(buffer) == 0.
IsEmpty(buffer) == buffer[1] = NUL

\* Line 195 and line 239: the completeness test of setup.
anyParamNotSet(server, user, password) == IsEmpty(server) \/ IsEmpty(user) \/ IsEmpty(user)

(* -------------------------------- state ------------------------------- *)

VARIABLES
    pc,            \* position in setup()/loop()
    eeprom,        \* the EEPROM bytes
    mqttServer,    \* char mqttServer[MAX_STRING_LENGTH]
    mqttUser,      \* char mqttUser[MAX_STRING_LENGTH]
    mqttPassword,  \* char mqttPassword[MAX_STRING_LENGTH]
    lastCommand,   \* String lastCommand
    lastHash,      \* String lastHash
    userNumber,    \* int userNumber
    ledLock,       \* level of pin LED_LOCK (TRUE = HIGH)
    ledUnlock,     \* level of pin LED_UNLOCK
    subscribed,    \* callback registered and both topics subscribed
    seeded,        \* number of randomSeed calls since boot
    pubs,          \* what the latest step published
    acts,          \* the actuator calls of the latest step
    issued,        \* the latest accepted command request with its nonce, if any
    superseded,    \* user and nonce of the request it replaced while unanswered, if any
    cmdSince,      \* a further command-topic message arrived since `issued`
    respSince,     \* validation responses since `issued`: "none", "one", "many"
    lastEvent,     \* the kind of message the latest step delivered, "none" if none
    echo,          \* which recorded requests the latest response answers
    written,       \* the three values the portal handed back last, if it ever closed
    writes,        \* number of EEPROM.write calls of the latest step of setup
    zeroed,        \* initEEPROM has zero-filled the EEPROM at least once
    digestIn,      \* digest specification: the input string
    digestOut      \* digest specification: the result of djb2Modified, if applied

store == <<eeprom, mqttServer, mqttUser, mqttPassword>>

authorizer == <<lastCommand, lastHash, userNumber>>

leds == <<ledLock, ledUnlock>>

history == <<issued, superseded, cmdSince, respSince>>

latest == <<lastEvent, echo, pubs, acts>>

storeLog == <<written, writes, zeroed>>

digestVars == <<digestIn, digestOut>>

vars == <<pc, store, authorizer, leds, subscribed, seeded, latest, history, storeLog, digestVars>>

(* ------------------------------- inputs ------------------------------- *)

\* What the configuration portal may hand back for one parameter: nothing, or "x".
PortalValues == {<<>>, <<Chx>>}

\* EEPROM contents at first power-up: erased flash, or all zero.
InitialStorage == {[a \in 1 .. EEPROM_SIZE |-> 255], [a \in 1 .. EEPROM_SIZE |-> NUL]}

\* The digits of the users that send well-formed requests.
UserDigits == {Ch0 + u : u \in 1 .. MaxUsers}

\* Command-topic payloads of the wire format <user-digit><"lock"|"unlock">.
WellFormedCommands == {<<d>> \o c : d \in UserDigits, c \in {StrLock, StrUnlock}}

\* Command-topic payloads of any other shape.
MalformedCommands ==
    {<<>>, <<Ch0 + 1>>, <<Chx>> \o StrLock, <<Ch9>> \o StrLockUpper, <<Ch0 + 1>> \o StrLocks}

\* The digests of the sample nonces.
SampleDigests == {djb2Modified(n) : n \in generateRandomString}

\* Validation-response payloads: a leading character (a user digit, another
\* digit, or no digit) followed by a sample digest, by that digest with a leading
\* zero, or by nothing; and the empty payload.
ResponsePayloads ==
    {<<>>} \cup
    {<<d>> \o h : d \in UserDigits \cup {Ch9, ChSlash},
                  h \in SampleDigests \cup {<<>>} \cup {<<Ch0>> \o g : g \in SampleDigests}}

(* ------------------------------- actuator ----------------------------- *)

\* Variant of lock: the two pins exchanged.
lockInverted ==
    /\ ledLock' = FALSE
    /\ ledUnlock' = TRUE

\* lock(): LED_LOCK high, LED_UNLOCK low.
lock ==
    /\ ledLock' = TRUE
    /\ ledUnlock' = FALSE

\* unlock(): LED_LOCK low, LED_UNLOCK high.
unlock ==
    /\ ledLock' = FALSE
    /\ ledUnlock' = TRUE

\* Variant of executeCommand: an unknown command locks.
executeCommandDefaultLock ==
    IF lastCommand = StrUnlock
    THEN unlock /\ acts' = <<"unlock">>
    ELSE lock /\ acts' = <<"lock">>

\* executeCommand(): run the stored command.
executeCommand ==
    IF lastCommand = StrUnlock
    THEN unlock /\ acts' = <<"unlock">>
    ELSE IF lastCommand = StrLock
         THEN lock /\ acts' = <<"lock">>
         ELSE UNCHANGED leds /\ acts' = <<>>

(* ----------------------------- CommandAuthorizer ---------------------- *)

\* Variant of HasUserDigit: the first character not tested with isDigit.
HasUserDigitAnyChar(message) == Len(message) > 1

\* Line 147: the shape test of a command-topic message.
HasUserDigit(message) == Len(message) > 1 /\ isDigit(charAt(message, 0))

\* Variant of IsCommandWord: the first letter may be a capital.
IsCommandWordAnyCase(command) ==
    command = StrUnlock \/ command = StrLock \/ command = StrLockUpper

\* Line 150: the command word test.
IsCommandWord(command) == command = StrUnlock \/ command = StrLock

\* Variant of ResponseMatches: the user digit compared without the '0' offset.
ResponseMatchesNoOffset(message) ==
    charAt(message, 0) = userNumber /\ substring(message, 1) = lastHash

\* Variant of ResponseMatches: the user digit not compared.
ResponseMatchesAnyUser(message) == substring(message, 1) = lastHash

\* Line 168: the match rule of a validation response.
ResponseMatches(message) ==
    charAt(message, 0) = userNumber + Ch0 /\ substring(message, 1) = lastHash

\* The wire format of a command request: <user-digit><"lock"|"unlock">.
WellFormed(message) ==
    /\ Len(message) >= 2
    /\ isDigit(message[1])
    /\ substring(message, 1) \in {StrLock, StrUnlock}

\* The payload that answers request r: its user digit, then the digest of its nonce.
Answer(r) == <<Ch0 + r.user>> \o djb2Modified(r.nonce)

\* How the properties below classify a delivered message.
EventOf(topic, message) ==
    IF topic = topicCommands
    THEN IF WellFormed(message) THEN "request" ELSE "malformed"
    ELSE IF topic = topicValidationResponses THEN "response" ELSE "other"

\* Bookkeeping of the messages seen, for the properties below.  A well-formed
\* request is recorded with the nonce of the challenge published for it.
Observe(topic, message) ==
    /\ lastEvent' = EventOf(topic, message)
    /\ echo' = IF topic = topicValidationResponses
               THEN {k \in {"issued", "superseded"} :
                        LET q == IF k = "issued" THEN issued ELSE superseded
                        IN  q # <<>> /\ message = Answer(q[1])}
               ELSE {}
    /\ IF topic = topicCommands /\ WellFormed(message)
       THEN /\ issued' = <<[user |-> message[1] - Ch0,
                            command |-> substring(message, 1),
                            nonce |-> IF pubs' = <<>> THEN <<>>
                                      ELSE substring(pubs'[1].payload, 1)]>>
            /\ superseded' = IF issued # <<>> /\ respSince = "none"
                             THEN <<[user |-> issued[1].user, nonce |-> issued[1].nonce]>>
                             ELSE <<>>
            /\ cmdSince' = FALSE
            /\ respSince' = "none"
       ELSE /\ UNCHANGED <<issued, superseded>>
            /\ cmdSince' = (cmdSince \/ (topic = topicCommands /\ issued # <<>>))
            /\ respSince' = IF topic = topicValidationResponses /\ issued # <<>>
                            THEN (IF respSince = "none" THEN "one" ELSE "many")
                            ELSE respSince

\* mqttCallback(topic, payload, length).
mqttCallback(topic, message) ==
    /\ IF topic = topicCommands
       THEN /\ UNCHANGED leds
            /\ acts' = <<>>
            /\ IF HasUserDigit(message)
               THEN /\ userNumber' = charAt(message, 0) - Ch0
                    /\ IF IsCommandWord(substring(message, 1))
                       THEN \E randomString \in generateRandomString :
                                /\ lastCommand' = substring(message, 1)
                                /\ lastHash' = djb2Modified(randomString)
                                /\ pubs' = <<[topic |-> topicValidationRequests,
                                              payload |-> StringOf(userNumber') \o randomString]>>
                       ELSE /\ UNCHANGED <<lastCommand, lastHash>>
                            /\ pubs' = <<>>
               ELSE /\ UNCHANGED authorizer
                    /\ pubs' = <<>>
       ELSE /\ UNCHANGED authorizer
            /\ pubs' = <<>>
            /\ IF topic = topicValidationResponses
               THEN IF ResponseMatches(message)
                    THEN executeCommand
                    ELSE UNCHANGED leds /\ acts' = <<>>
               ELSE UNCHANGED leds /\ acts' = <<>>
    /\ Observe(topic, message)

(* --------------------------------- boot ------------------------------- *)

\* The globals as the program image initialises them (lines 40-53).
RamInit ==
    /\ mqttServer = ZeroBuffer
    /\ mqttUser = ZeroBuffer
    /\ mqttPassword = ZeroBuffer
    /\ lastCommand = <<>>
    /\ lastHash = <<>>
    /\ userNumber = -1
    /\ ledLock = FALSE
    /\ ledUnlock = FALSE
    /\ subscribed = FALSE
    /\ seeded = 0
    /\ pubs = <<>>
    /\ acts = <<>>
    /\ issued = <<>>
    /\ superseded = <<>>
    /\ cmdSince = FALSE
    /\ respSince = "none"
    /\ lastEvent = "none"
    /\ echo = {}

\* Nothing has been written to the EEPROM by the program yet.
StoreLogInit ==
    /\ written = <<>>
    /\ writes = 0
    /\ zeroed = FALSE

Init ==
    /\ pc = "setup"
    /\ eeprom \in InitialStorage
    /\ RamInit
    /\ StoreLogInit
    /\ digestIn = <<>>
    /\ digestOut = <<>>

\* ESP.restart(): the program starts again; only the EEPROM is kept.
restart ==
    /\ pc' = "setup"
    /\ mqttServer' = ZeroBuffer
    /\ mqttUser' = ZeroBuffer
    /\ mqttPassword' = ZeroBuffer
    /\ lastCommand' = <<>>
    /\ lastHash' = <<>>
    /\ userNumber' = -1
    /\ ledLock' = FALSE
    /\ ledUnlock' = FALSE
    /\ subscribed' = FALSE
    /\ seeded' = 0
    /\ pubs' = <<>>
    /\ acts' = <<>>
    /\ issued' = <<>>
    /\ superseded' = <<>>
    /\ cmdSince' = FALSE
    /\ respSince' = "none"
    /\ lastEvent' = "none"
    /\ echo' = {}
    /\ writes' = 0
    /\ UNCHANGED <<eeprom, written, zeroed, digestVars>>

\* setup(), lines 178-202: lock(), initEEPROM(), the three reads and the
\* decision to open the configuration portal.  buttonLow: BTN_WIFI_RES reads LOW.
SetupRead(buttonLow) ==
    /\ pc = "setup"
    /\ lock
    /\ acts' = <<"lock">>
    /\ eeprom' = initEEPROM(eeprom)
    /\ writes' = initEEPROMWrites(eeprom)
    /\ zeroed' = (zeroed \/ eeprom[FLAG_ADDRESS + 1] # INIT_FLAG)
    /\ mqttServer' = getSavedString(eeprom', MQTT_SERVER_START, mqttServer)
    /\ mqttUser' = getSavedString(eeprom', MQTT_USER_START, mqttUser)
    /\ mqttPassword' = getSavedString(eeprom', MQTT_PASSWORD_START, mqttPassword)
    /\ pc' = IF buttonLow \/ anyParamNotSet(mqttServer', mqttUser', mqttPassword')
             THEN "portal" ELSE "wifi"
    /\ UNCHANGED <<authorizer, subscribed, seeded, lastEvent, echo, pubs, history, written,
                   digestVars>>

\* setup(), lines 203-227: the portal closes with the three parameter values,
\* which are copied into the globals and saved.
SetupPortal(server, user, password) ==
    /\ pc = "portal"
    /\ mqttServer' = strncpy(server)
    /\ mqttUser' = strncpy(user)
    /\ mqttPassword' = strncpy(password)
    /\ \E afterServer \in {setSavedString(eeprom, MQTT_SERVER_START, mqttServer')} :
       \E afterUser \in {setSavedString(afterServer, MQTT_USER_START, mqttUser')} :
           eeprom' = setSavedString(afterUser, MQTT_PASSWORD_START, mqttPassword')
    /\ written' = <<server, user, password>>
    /\ writes' = setSavedStringWrites(mqttServer') + setSavedStringWrites(mqttUser')
                     + setSavedStringWrites(mqttPassword')
    /\ pc' = "wifi"
    /\ acts' = <<>>
    /\ UNCHANGED <<authorizer, leds, subscribed, seeded, lastEvent, echo, pubs, history, zeroed,
                   digestVars>>

\* setup(), lines 229-247: autoConnect returns res; restart when it failed or
\* when the completeness test fails, otherwise set the server and the callback.
SetupWifi(res) ==
    /\ pc = "wifi"
    /\ IF ~res \/ anyParamNotSet(mqttServer, mqttUser, mqttPassword)
       THEN restart
       ELSE /\ pc' = "connect"
            /\ acts' = <<>>
            /\ writes' = 0
            /\ UNCHANGED <<store, authorizer, leds, subscribed, seeded, lastEvent, echo, pubs,
                           history, written, zeroed, digestVars>>

\* setup(), lines 251-262: one pass of the connect loop; on success both topics
\* are subscribed, otherwise the loop waits and tries again.
SetupConnect(ok) ==
    /\ pc = "connect"
    /\ pc' = IF ok THEN "seed" ELSE "connect"
    /\ subscribed' = ok
    /\ UNCHANGED <<store, authorizer, leds, seeded, latest, history, storeLog, digestVars>>

\* Variant of SetupSeed: setup returns without the randomSeed call.
SetupSeedSkipped ==
    /\ pc = "seed"
    /\ pc' = "loop"
    /\ UNCHANGED <<store, authorizer, leds, subscribed, seeded, latest, history, storeLog,
                   digestVars>>

\* setup(), line 265: randomSeed(analogRead(0)); setup returns and loop() runs.
SetupSeed ==
    /\ pc = "seed"
    /\ seeded' = seeded + 1
    /\ pc' = "loop"
    /\ UNCHANGED <<store, authorizer, leds, subscribed, latest, history, storeLog, digestVars>>

(* --------------------------------- loop ------------------------------- *)

\* loop(): client.loop() with nothing delivered.
LoopIdle ==
    /\ pc = "loop"
    /\ lastEvent' = "none"
    /\ echo' = {}
    /\ pubs' = <<>>
    /\ acts' = <<>>
    /\ UNCHANGED <<pc, store, authorizer, leds, subscribed, seeded, history, storeLog, digestVars>>

\* loop(): client.loop() delivers one message to mqttCallback.
LoopMessage(topic, message) ==
    /\ pc = "loop"
    /\ mqttCallback(topic, message)
    /\ UNCHANGED <<pc, store, subscribed, seeded, storeLog, digestVars>>

\* A message on the commands topic.
LoopCommand == \E message \in WellFormedCommands \cup MalformedCommands :
                   LoopMessage(topicCommands, message)

\* A message on the validation-responses topic.
LoopResponse == \E message \in ResponsePayloads :
                    LoopMessage(topicValidationResponses, message)

\* A message on any other topic.
LoopOther == \E message \in {<<>>, <<Ch0 + 1>> \o StrUnlock} :
                 LoopMessage(topicOther, message)

Next ==
    \/ \E buttonLow \in BOOLEAN : SetupRead(buttonLow)
    \/ \E server \in PortalValues, user \in PortalValues, password \in PortalValues :
           SetupPortal(server, user, password)
    \/ \E res \in BOOLEAN : SetupWifi(res)
    \/ \E ok \in BOOLEAN : SetupConnect(ok)
    \/ SetupSeed
    \/ LoopIdle
    \/ LoopCommand
    \/ LoopResponse
    \/ LoopOther

Spec == Init /\ [][Next]_vars

(* ------------------- the digest on its own (DigestSpec) ---------------- *)

\* The letters the digest specification builds its inputs from, spread over A-Z.
DigestLetters == {ChA + (i * (ALPHABET - 1)) \div (MaxLetters - 1) : i \in 0 .. MaxLetters - 1}

DigestInit ==
    /\ pc = "digest"
    /\ eeprom = [a \in 1 .. EEPROM_SIZE |-> NUL]
    /\ RamInit
    /\ StoreLogInit
    /\ digestIn = <<>>
    /\ digestOut = <<>>

\* One more letter of the nonce (one pass of the loop of generateRandomString).
DigestAppend(c) ==
    /\ Len(digestIn) < NONCE_LENGTH
    /\ digestIn' = Append(digestIn, c)
    /\ UNCHANGED <<pc, store, authorizer, leds, subscribed, seeded, latest, history, storeLog,
                   digestOut>>

\* lastHash = djb2Modified(randomString) on the finished nonce.
DigestApply ==
    /\ Len(digestIn) = NONCE_LENGTH
    /\ digestOut = <<>>
    /\ digestOut' = djb2Modified(digestIn)
    /\ UNCHANGED <<pc, store, authorizer, leds, subscribed, seeded, latest, history, storeLog,
                   digestIn>>

DigestNext ==
    \/ \E c \in DigestLetters : DigestAppend(c)
    \/ DigestApply

DigestSpec == DigestInit /\ [][DigestNext]_vars

(* ---------------- the configuration store on its own (StoreSpec) ------- *)

\* A portal value of k characters.
Filled(k) == [i \in 1 .. k |-> Chx]

\* What the portal may hand back in the store specification: nothing, one
\* character, and the longest values a parameter of length MAX_STRING_LENGTH holds.
StoreValues == {Filled(k) : k \in {0, 1, MAX_STRING_LENGTH - 1, MAX_STRING_LENGTH}}

\* EEPROM contents at first power-up: as InitialStorage, or every byte 0x2D, so
\* that the byte at FLAG_ADDRESS happens to hold the marker.
StoreInitialStorage == InitialStorage \cup {[a \in 1 .. EEPROM_SIZE |-> INIT_FLAG]}

StoreInit ==
    /\ pc = "setup"
    /\ eeprom \in StoreInitialStorage
    /\ RamInit
    /\ StoreLogInit
    /\ digestIn = <<>>
    /\ digestOut = <<>>

\* The part of setup() that uses the store, boot after boot.
StoreNext ==
    \/ \E buttonLow \in BOOLEAN : SetupRead(buttonLow)
    \/ \E server \in StoreValues, user \in StoreValues, password \in StoreValues :
           SetupPortal(server, user, password)
    \/ \E res \in BOOLEAN : SetupWifi(res)

StoreSpec == StoreInit /\ [][StoreNext]_vars


(* ------------------------------ properties ---------------------------- *)

\* The actuator call that carries out a command word.
ActionOf(command) == IF command = StrUnlock THEN "unlock" ELSE "lock"

\* The latest step has run lock() (resp. unlock()) once and nothing else.
RanOnce(action) ==
    /\ acts = <<action>>
    /\ ledLock = (action = "lock")
    /\ ledUnlock = (action = "unlock")

\* The latest step delivered a validation response that is the answer to the
\* latest accepted request, as the first response after it, with no other
\* command-topic message in between.
FirstAnswer ==
    /\ lastEvent = "response"
    /\ "issued" \in echo
    /\ respSince = "one"
    /\ ~cmdSince

\* C1: when the first validation response after an accepted request '<u><c>' is u
\* followed by the digest of the published nonce, and no other command-topic
\* message came in between, the actuator runs exactly once, with the action of c;
\* idle poll cycles and messages on other topics in between do not matter.
C1_AnswerExecutes == FirstAnswer => RanOnce(ActionOf(issued[1].command))

C1_Witness == FirstAnswer /\ issued[1].command = StrUnlock /\ ledUnlock

\* C2: a validation response invokes the actuator only if it is the user digit of
\* the latest accepted request followed by the digest of that request's nonce.
C2_OnlyAnswerExecutes == (lastEvent = "response" /\ acts # <<>>) => "issued" \in echo

\* C3: once a validation response has been processed, a further validation
\* response with no accepted request in between does not invoke the actuator.
C3_SingleUse == (lastEvent = "response" /\ respSince = "many") => acts = <<>>

\* The latest step delivered the answer to a request that was superseded, while
\* unanswered, by the latest accepted request.
LateAnswer == lastEvent = "response" /\ "superseded" \in echo

\* The superseded request's answer is also what the code now compares against.
SameAsNewer ==
    /\ djb2Modified(superseded[1].nonce) = djb2Modified(issued[1].nonce)
    /\ userNumber = superseded[1].user

\* C4 as stated: the answer to a superseded challenge never invokes the actuator,
\* whatever the two users and nonces are.
C4_LateAnswerRejected == LateAnswer => acts = <<>>

\* C4, amended: the answer to a superseded challenge is rejected unless the newer
\* nonce has the same digest and the pending user is the superseded request's
\* user; then it executes the newer request's command.
C4_LateAnswerRejectedUnlessSame ==
    LateAnswer =>
        IF SameAsNewer THEN RanOnce(ActionOf(issued[1].command)) ELSE acts = <<>>

C4_Witness ==
    /\ LateAnswer
    /\ acts = <<>>
    /\ superseded[1].user = issued[1].user
    /\ superseded[1].nonce # issued[1].nonce

\* C5: a malformed command-topic message creates no pending challenge (stored
\* command and digest stay as they are), publishes nothing and does not invoke the
\* actuator.
C5_MalformedIgnored ==
    [][lastEvent' = "malformed" =>
          /\ pubs' = <<>>
          /\ acts' = <<>>
          /\ UNCHANGED <<leds, lastCommand, lastHash>>]_vars

C5_Witness == lastEvent = "malformed" /\ userNumber = 9 /\ issued # <<>> /\ pubs = <<>>

\* C6: a malformed command-topic message leaves userNumber, lastCommand and
\* lastHash as they were.
C6_MalformedKeepsState == [][lastEvent' = "malformed" => UNCHANGED authorizer]_vars

\* C7: a validation response processed before any well-formed request has been
\* accepted since boot does not invoke the actuator and changes no authorizer state.
C7_NoChallengeNoEffect ==
    [][(lastEvent' = "response" /\ issued = <<>>) =>
          /\ acts' = <<>>
          /\ UNCHANGED <<authorizer, leds>>]_vars

C7_Witness == lastEvent = "response" /\ issued = <<>> /\ userNumber = 9 /\ lastCommand = <<>>

\* C8: an accepted well-formed request <u><c> publishes exactly one message, on
\* the validation-requests topic, made of the digit u and 8 letters A-Z, and
\* leaves u, c and the digest of exactly that nonce stored, whatever was pending.
C8_RequestIssuesChallenge ==
    lastEvent = "request" =>
        LET r == issued[1]
        IN  /\ pubs = <<[topic |-> topicValidationRequests,
                         payload |-> <<Ch0 + r.user>> \o r.nonce]>>
            /\ Len(r.nonce) = NONCE_LENGTH
            /\ \A i \in 1 .. Len(r.nonce) : r.nonce[i] \in ChA .. ChA + ALPHABET - 1
            /\ userNumber = r.user
            /\ lastCommand = r.command
            /\ lastHash = djb2Modified(r.nonce)
            /\ acts = <<>>

C8_Witness ==
    /\ lastEvent = "request"
    /\ superseded # <<>>
    /\ superseded[1].user # issued[1].user
    /\ superseded[1].nonce # issued[1].nonce

\* h = SEED; for each byte b of the first k: h = h*33 + b; reduced modulo PRIME
\* (the reduction is applied at every step, which leaves the residue the same).
RECURSIVE Residue(_, _)
Residue(n, k) ==
    IF k = 0 THEN SEED % PRIME ELSE (Residue(n, k - 1) * MULTIPLIER + n[k]) % PRIME

\* The number a string of decimal digits denotes.
RECURSIVE DecimalValue(_)
DecimalValue(str) ==
    IF str = <<>> THEN 0
    ELSE DecimalValue(SubSeq(str, 1, Len(str) - 1)) * 10 + (str[Len(str)] - Ch0)

\* A decimal numeral: digits only, at least one, no leading zero.
IsDecimal(str) ==
    /\ Len(str) >= 1
    /\ \A i \in 1 .. Len(str) : isDigit(str[i])
    /\ (Len(str) > 1 => str[1] # Ch0)

\* C9: for an 8-letter nonce n, djb2Modified(n) is the decimal numeral of
\* (h = SEED; h = h*33 + b for each byte b of n) mod PRIME, a number in [0, PRIME).
C9_DigestValue ==
    digestOut # <<>> =>
        /\ IsDecimal(digestOut)
        /\ DecimalValue(digestOut) = Residue(digestIn, NONCE_LENGTH)
        /\ DecimalValue(digestOut) \in 0 .. PRIME - 1

C9_Witness ==
    /\ digestOut # <<>>
    /\ \A i \in 1 .. NONCE_LENGTH : digestIn[i] = ChA + ALPHABET - 1

\* setup has gone on to the MQTT client (setServer, connect, subscribe).
InTransportSetup == pc \in {"connect", "seed", "loop"}

\* C10: setup reaches the MQTT client only with a non-empty endpoint, username
\* and password.
C10_TransportNeedsAllThree ==
    InTransportSetup => ~IsEmpty(mqttServer) /\ ~IsEmpty(mqttUser) /\ ~IsEmpty(mqttPassword)

(* ------------------------------ claims C11-C20 ------------------------ *)

\* The slots of the store.
SlotStarts == {MQTT_SERVER_START, MQTT_USER_START, MQTT_PASSWORD_START}

\* The stored string of a slot is empty.
SlotEmpty(ee, start) == ee[start + 1] = NUL

\* setup is about to run (at power-up or after ESP.restart()), or has gone on
\* to the transport setup.
BootSettled == pc \in {"setup", "connect", "seed", "loop"}

\* C11: whenever setup has gone on to the transport setup or has restarted, the
\* three stored slots are all empty or all non-empty.
C11_NeverHalfConfigured ==
    BootSettled =>
        \/ \A start \in SlotStarts : SlotEmpty(eeprom, start)
        \/ \A start \in SlotStarts : ~SlotEmpty(eeprom, start)

\* The marker byte holds INIT_FLAG.
Marked(ee) == ee[FLAG_ADDRESS + 1] = INIT_FLAG

\* The latest step was the start of a boot: lock(), initEEPROM(), the three reads.
JustRead == pc \in {"portal", "wifi"} /\ acts = <<"lock">>

\* C12: initEEPROM is idempotent.  Without the marker it zero-fills every byte
\* and writes the marker; with the marker (a second call, in this boot or a later
\* one) it writes nothing and changes no byte, so the values the portal saved
\* are still in the EEPROM after the initEEPROM of every later boot.
C12_InitIdempotent ==
    [][(pc = "setup" /\ pc' # "setup") =>
          /\ ~Marked(eeprom) =>
                 /\ \A a \in 1 .. EEPROM_SIZE :
                        eeprom'[a] = IF a = FLAG_ADDRESS + 1 THEN INIT_FLAG ELSE NUL
                 /\ writes' = EEPROM_SIZE + 1
          /\ Marked(eeprom) => (eeprom' = eeprom /\ writes' = 0)
          /\ written # <<>> => eeprom' = eeprom
          /\ initEEPROM(eeprom') = eeprom'
          /\ initEEPROMWrites(eeprom') = 0]_vars

\* A later boot has run initEEPROM on a store that holds saved values.
C12_Witness ==
    JustRead /\ written # <<>> /\ zeroed /\ writes = 0 /\ ~SlotEmpty(eeprom, MQTT_SERVER_START)

\* The string a char array holds: the bytes before its first terminator.
CString(b) == SubSeq(b, 1, FirstNul(b))

\* The char array of the n-th slot.
BufferOf(n) == <<mqttServer, mqttUser, mqttPassword>>[n]

\* C13: a value of at most MAX_STRING_LENGTH - 1 characters saved with
\* setSavedString is what getSavedString reads back from that slot at the next
\* boot, whatever the slot held before and whatever the other slots were given.
C13_RoundTrip ==
    (JustRead /\ written # <<>>) =>
        \A n \in 1 .. 3 :
            Len(written[n]) <= MAX_STRING_LENGTH - 1 => CString(BufferOf(n)) = written[n]

\* A one-character endpoint is read back from a slot that still holds, behind its
\* terminator, bytes of a longer earlier value; the user slot holds the longest
\* value that fits and the password slot holds 64 bytes without a terminator.
C13_Witness ==
    /\ JustRead
    /\ written = <<Filled(1), Filled(MAX_STRING_LENGTH - 1), Filled(MAX_STRING_LENGTH)>>
    /\ eeprom[MQTT_SERVER_START + 3] = Chx
    /\ CString(mqttUser) = Filled(MAX_STRING_LENGTH - 1)

\* What a value is truncated to: its first MAX_STRING_LENGTH - 1 characters.
Truncated(value) ==
    IF Len(value) <= MAX_STRING_LENGTH - 1 THEN value ELSE SubSeq(value, 1, MAX_STRING_LENGTH - 1)

\* The slot holds a terminator within its MAX_STRING_LENGTH bytes.
SlotTerminated(ee, start) == \E i \in Slot : ee[start + i + 1] = NUL

\* C14: once setSavedString has saved the portal values, every slot holds a
\* terminated string of at most MAX_STRING_LENGTH - 1 characters, and the next
\* boot reads back each value truncated to that length, with its terminator.
C14_TruncatesAndTerminates ==
    written # <<>> =>
        /\ \A start \in SlotStarts : SlotTerminated(eeprom, start)
        /\ JustRead =>
               \A n \in 1 .. 3 :
                   /\ FirstNul(BufferOf(n)) < MAX_STRING_LENGTH
                   /\ CString(BufferOf(n)) = Truncated(written[n])

\* Every byte outside the slot at start is the same in the two EEPROM contents.
SameOutside(before, after, start) ==
    \A a \in 1 .. EEPROM_SIZE :
        (a - 1 < start \/ a - 1 >= start + MAX_STRING_LENGTH) => after[a] = before[a]

\* C15: each of the three setSavedString calls of the portal pass changes bytes
\* of its own slot only: the marker and the other two slots stay as they were.
C15_WritesOwnSlotOnly ==
    [][(pc = "portal" /\ pc' = "wifi") =>
          \A afterServer \in {setSavedString(eeprom, MQTT_SERVER_START, mqttServer')} :
          \A afterUser \in {setSavedString(afterServer, MQTT_USER_START, mqttUser')} :
          \A afterPassword \in {setSavedString(afterUser, MQTT_PASSWORD_START, mqttPassword')} :
              /\ SameOutside(eeprom, afterServer, MQTT_SERVER_START)
              /\ SameOutside(afterServer, afterUser, MQTT_USER_START)
              /\ SameOutside(afterUser, afterPassword, MQTT_PASSWORD_START)
              /\ eeprom' = afterPassword
              /\ Marked(eeprom') = Marked(eeprom)]_vars

\* The portal has just saved three values of MAX_STRING_LENGTH characters; the
\* marker and the bytes behind the last slot are as initEEPROM left them.
C15_Witness ==
    /\ pc = "wifi"
    /\ acts = <<>>
    /\ written = <<Filled(MAX_STRING_LENGTH), Filled(MAX_STRING_LENGTH), Filled(MAX_STRING_LENGTH)>>
    /\ zeroed
    /\ Marked(eeprom)
    /\ eeprom[MQTT_PASSWORD_START + MAX_STRING_LENGTH + 1] = NUL
    /\ eeprom[MQTT_PASSWORD_START + MAX_STRING_LENGTH] = Chx

\* C16 as stated: the marker byte holds INIT_FLAG exactly when initEEPROM has
\* zero-filled the EEPROM at least once, whatever the EEPROM held at first.
C16_MarkerIffZeroed == Marked(eeprom) <=> zeroed

\* C16, amended: a zero-fill leaves the marker set, the marker is set after the
\* initEEPROM of every boot, and it only ever becomes set by a zero-fill; an
\* EEPROM that held INIT_FLAG at FLAG_ADDRESS from the start is never
\* zero-filled.  After a zero-fill and before the portal has saved anything,
\* the values read at boot are empty.
C16_MarkerFromZeroFill ==
    [][/\ zeroed' => Marked(eeprom')
       /\ (Marked(eeprom') /\ ~Marked(eeprom)) => zeroed'
       /\ (Marked(eeprom) /\ ~zeroed) => ~zeroed'
       /\ (pc = "setup" /\ pc' # "setup") =>
              /\ Marked(eeprom')
              /\ (zeroed' /\ written = <<>>) =>
                     IsEmpty(mqttServer') /\ IsEmpty(mqttUser') /\ IsEmpty(mqttPassword')]_vars

\* A boot has read its values from an EEPROM that held the marker from the
\* start: nothing was zero-filled and the values are the bytes found there.
C16_Witness ==
    /\ JustRead
    /\ Marked(eeprom)
    /\ ~zeroed
    /\ written = <<>>
    /\ mqttServer[1] = INIT_FLAG

\* C17: randomSeed runs once per boot, at the end of setup: after the callback
\* is registered and the topics are subscribed, and before mqttCallback has run
\* for any message, hence before any nonce is generated.
C17_SeededBeforeFirstNonce ==
    /\ seeded \in {0, 1}
    /\ pc = "loop" <=> seeded = 1
    /\ pc = "seed" => subscribed
    /\ (lastEvent # "none" \/ issued # <<>> \/ pubs # <<>>) => seeded = 1

\* A nonce has just been generated and published.
C17_Witness == pc = "loop" /\ seeded = 1 /\ lastEvent = "request" /\ pubs # <<>>

\* C18: the first step of a boot leaves the device locked; it becomes unlocked
\* only by a validation response that matches while the stored command is
\* "unlock"; no step of setup after that and no message on the commands topic
\* or on another topic changes the actuator.
C18_UnlockNeedsMatch ==
    [][/\ (pc = "setup" /\ pc' # "setup") => (ledLock' /\ ~ledUnlock')
       /\ pc' # "loop" => ~ledUnlock'
       /\ (ledUnlock' /\ ~ledUnlock) =>
              /\ lastEvent' = "response"
              /\ lastCommand = StrUnlock
              /\ \E message \in ResponsePayloads :
                     ResponseMatches(message) /\ LoopMessage(topicValidationResponses, message)
       /\ lastEvent' \in {"request", "malformed", "other"} => UNCHANGED leds]_vars

\* The device is unlocked, and the message just delivered on the commands topic
\* has left it so.
C18_Witness == pc = "loop" /\ ledUnlock /\ ~ledLock /\ lastEvent = "malformed"

\* C19: userNumber is -1 or a digit value, lastCommand is "", "lock" or "unlock",
\* lastHash is "" or the decimal numeral of a number below PRIME; lastCommand is
\* "" exactly when lastHash is, and neither is "" once a request was accepted,
\* so executeCommand meets an unknown command only before that.
C19_AuthorizerDomains ==
    /\ userNumber \in -1 .. 9
    /\ lastCommand \in {<<>>, StrLock, StrUnlock}
    /\ lastHash = <<>> \/ (IsDecimal(lastHash) /\ DecimalValue(lastHash) \in 0 .. PRIME - 1)
    /\ lastCommand = <<>> <=> lastHash = <<>>
    /\ issued # <<>> => lastCommand # <<>>
    /\ issued = <<>> => lastCommand = <<>>

\* A request was accepted and a later malformed message has set userNumber to 9.
C19_Witness ==
    /\ issued # <<>>
    /\ userNumber = 9
    /\ issued[1].user # 9
    /\ lastCommand = StrUnlock
    /\ lastHash # <<>>

\* C20: over an 8-letter nonce the running hash never passes 2^64 - 1: no step
\* of the loop carries out of the top limb, so the four limbs hold the exact
\* value and the digest is the numeral of the residue taken step by step.
C20_NeverWraps ==
    /\ \A k \in 1 .. Len(digestIn) : Mul33Carry(HashLoop(digestIn, k - 1), digestIn[k]) = 0
    /\ digestOut # <<>> => digestOut = StringOf(Residue(digestIn, NONCE_LENGTH))

\* The digest of "ZZZZZZZZ" has been computed; its hash needs more than 48 bits.
C20_Witness ==
    /\ digestOut # <<>>
    /\ digestIn = [i \in 1 .. NONCE_LENGTH |-> ChA + ALPHABET - 1]
    /\ HashLoop(digestIn, NONCE_LENGTH)[4] > 0

====
